---- MODULE Spec2Model ----
(***************************************************************************)
(* codex-peon: the notify hook's event classification and playback         *)
(* admission core (src/codex-peon.py), as a state machine.                 *)
(*                                                                         *)
(* Time is counted in whole seconds (time.time() read once per call); two  *)
(* calls made less than a second apart read the same value.  Python dicts  *)
(* are functions whose DOMAIN is the set of keys present; None as a pid is *)
(* NoPid.  Text is a sequence of one-character strings.                    *)
(***************************************************************************)
EXTENDS Integers, Sequences, FiniteSets, TLC

\* ------------------------------------------------------------------ bounds
MaxNow == 2          \* the clock runs over 1..MaxNow
MaxThreads == 1      \* thread ids 1..MaxThreads (plus the blank thread-id)
MaxPid == 2          \* process ids 1..MaxPid
MaxTurns == 2        \* turns held in turn_timestamps, over all threads
MaxExtra == 2        \* turns and threads explored beyond TurnCap and SeenCap

\* ------------------------------------------------------- program constants
NoPid == 0           \* playback_pid: None
TurnCap == 32        \* kept[-32:]
SeenCap == 256       \* seen_threads[-256:]
DefaultKey == 0      \* the thread key "__default__"
Blank == -1          \* a thread-id that is absent, not a string, or blank

Categories ==
    {"greeting", "acknowledge", "complete", "permission", "error",
     "resource_limit", "annoyed"}

CATEGORY_PRIORITY == <<"resource_limit", "permission", "error">>

CATEGORY_FALLBACKS ==
    [greeting       |-> <<"acknowledge", "complete">>,
     acknowledge    |-> <<"complete">>,
     complete       |-> <<"acknowledge">>,
     permission     |-> <<"acknowledge", "complete">>,
     error          |-> <<"acknowledge", "complete">>,
     resource_limit |-> <<"acknowledge", "complete">>,
     annoyed        |-> <<"acknowledge", "complete">>]

GREETING_MODES == {"launch", "turn_start", "both", "off"}

\* ------------------------------------------------------------ dict helpers
EmptyDict == <<>>

\* d.get(k, dflt)
Get(d, k, dflt) == IF k \in DOMAIN d THEN d[k] ELSE dflt

\* d[k] = v
Put(d, k, v) == [x \in (DOMAIN d) \cup {k} |-> IF x = k THEN v ELSE d[x]]

\* Mutant: seq[:n], the newest entries are the ones dropped
LastN_keeps_oldest(seq, n) ==
    IF Len(seq) <= n THEN seq ELSE SubSeq(seq, 1, n)

\* seq[-n:]
LastN(seq, n) ==
    IF Len(seq) <= n THEN seq ELSE SubSeq(seq, Len(seq) - n + 1, Len(seq))

Max(a, b) == IF a >= b THEN a ELSE b


Range(seq) == {seq[i] : i \in 1..Len(seq)}

\* --------------------------------------------------------------------- text
UpperCase ==
    <<"A","B","C","D","E","F","G","H","I","J","K","L","M",
      "N","O","P","Q","R","S","T","U","V","W","X","Y","Z">>

LowerCase ==
    <<"a","b","c","d","e","f","g","h","i","j","k","l","m",
      "n","o","p","q","r","s","t","u","v","w","x","y","z">>

ToLower ==
    [ch \in {UpperCase[i] : i \in 1..Len(UpperCase)} |->
        LowerCase[CHOOSE i \in 1..Len(UpperCase) : UpperCase[i] = ch]]

\* str.lower() of one character
Lower(ch) == IF ch \in DOMAIN ToLower THEN ToLower[ch] ELSE ch

LowerText(text) == [i \in 1..Len(text) |-> Lower(text[i])]

\* term in text  (substring)
Contains(text, term) ==
    \E i \in 0..(Len(text) - Len(term)) :
        \A j \in 1..Len(term) : text[i + j] = term[j]

\* raw.strip().lower(), on the mode strings the model's configs use
StripLower(raw) ==
    CASE raw = " Both" -> "both"
      [] OTHER -> raw

\* JSON values of the numeric config fields: a number, or anything float()/int()
\* rejects
Num(n) == [t |-> "num", v |-> n]
NotANumber == [t |-> "other", v |-> 0]

\* JSON values of the fields a payload or the keywords may fill with any type:
\* a string, a list, null, a number (held by its digits)
Str(text) == [t |-> "str", v |-> text]
Number(digits) == [t |-> "number", v |-> digits]
List(items) == [t |-> "list", v |-> items]
Null == [t |-> "null", v |-> <<>>]

\* isinstance(value, dict), for the value under "keywords": a dict is a
\* function on its keys, every other JSON value carries its type under "t"
IsDict(value) == "t" \notin DOMAIN value

\* --------------------------------------------------------------- the config
DictKeys ==
    {"categories", "cooldowns_seconds", "keywords",
     "last_played", "last_category_ts", "turn_timestamps"}

\* The keyword lists are abridged to the entries the model's messages can hit.
DEFAULT_CONFIG ==
    [active_pack |-> "peon",
     enabled |-> TRUE,
     greeting_mode |-> "launch",
     categories |-> [c \in Categories |-> TRUE],
     annoyed_threshold |-> Num(3),
     annoyed_window_seconds |-> Num(10),
     session_start_idle_seconds |-> Num(120),
     prevent_overlap |-> TRUE,
     cooldowns_seconds |-> [c \in Categories \cup {"default"} |-> Num(0)],
     keywords |->
        [permission |->
            List(<< Str(<<"a","p","p","r","o","v","e"," ","t","h","i","s">>) >>),
         error |->
            List(<< Str(<<"e","r","r","o","r">>), Str(<<"d","e","n","i","e","d">>) >>),
         resource_limit |->
            List(<< Str(<<"q","u","o","t","a">>), Str(<<"4","2","9">>) >>)]]

DEFAULT_STATE ==
    [last_played |-> EmptyDict,
     last_category_ts |-> EmptyDict,
     seen_threads |-> <<>>,
     turn_timestamps |-> EmptyDict,
     last_event_ts |-> 0,
     playback_pid |-> NoPid]

\* _merge on one level of plain values
MergeFlat(dst, src) ==
    [k \in (DOMAIN dst) \cup (DOMAIN src) |->
        IF k \in DOMAIN src THEN src[k] ELSE dst[k]]

\* _merge(dst, src): dict values merge recursively, everything else overwrites
_merge(dst, src) ==
    [k \in (DOMAIN dst) \cup (DOMAIN src) |->
        IF k \notin DOMAIN src THEN dst[k]
        ELSE IF /\ k \in DictKeys
                /\ k \in DOMAIN dst
                /\ (k = "keywords" => IsDict(src[k]))
             THEN MergeFlat(dst[k], src[k])
        ELSE src[k]]

\* load_config(): the defaults overlaid with the file; the result is also
\* written back to the file
load_config(file) == _merge(DEFAULT_CONFIG, file)

\* json.dump of the session state: numbers become numerals, None becomes
\* null, strings (file names, thread keys, category names) stay strings
JsonNull == [t |-> "null", v |-> 0]

ToJson(state) ==
    [last_played |-> state.last_played,
     last_category_ts |->
        [c \in DOMAIN state.last_category_ts |-> Num(state.last_category_ts[c])],
     seen_threads |-> state.seen_threads,
     turn_timestamps |->
        [k \in DOMAIN state.turn_timestamps |->
            [i \in 1..Len(state.turn_timestamps[k]) |->
                Num(state.turn_timestamps[k][i])]],
     last_event_ts |-> Num(state.last_event_ts),
     playback_pid |-> IF state.playback_pid = NoPid THEN JsonNull
                      ELSE Num(state.playback_pid)]

\* json.load of the state file: the keys the file has, with their Python values
FromJson(file) ==
    [key \in DOMAIN file |->
        CASE key = "last_category_ts" ->
                [c \in DOMAIN file[key] |-> file[key][c].v]
          [] key = "turn_timestamps" ->
                [k \in DOMAIN file[key] |->
                    [i \in 1..Len(file[key][k]) |-> file[key][k][i].v]]
          [] key = "last_event_ts" -> file[key].v
          [] key = "playback_pid" ->
                IF file[key].t = "null" THEN NoPid ELSE file[key].v
          [] OTHER -> file[key]]

\* _load_json(path, default): EmptyDict stands for a file that is not there
_load_json(file, default) == IF file = EmptyDict THEN default ELSE FromJson(file)

\* Mutant: the dicts of the file are not merged in, the defaults' stay
load_state_keeps_default_dicts(file) ==
    LET data == _load_json(file, EmptyDict)
    IN  [k \in DOMAIN DEFAULT_STATE |->
            IF k \in DOMAIN data /\ k \notin DictKeys THEN data[k]
            ELSE DEFAULT_STATE[k]]

\* load_state(): the default state overlaid with the state file
load_state(file) == _merge(DEFAULT_STATE, _load_json(file, EmptyDict))

\* save_state(state)
save_state(state) == ToJson(state)

\* infer_category's loop over CATEGORY_PRIORITY, from its i-th entry on
RECURSIVE InferFrom(_, _, _)
InferFrom(text, keywords, i) ==
    IF i > Len(CATEGORY_PRIORITY) THEN "acknowledge"
    ELSE LET category == CATEGORY_PRIORITY[i]
             terms == IF IsDict(keywords) THEN Get(keywords, category, Null)
                      ELSE Null
         IN  IF /\ terms.t = "list"
                /\ \E n \in 1..Len(terms.v) :
                       LET term == terms.v[n]
                       IN  /\ term.t = "str"
                           /\ term.v # <<>>
                           /\ Contains(text, LowerText(term.v))
             THEN category
             ELSE InferFrom(text, keywords, i + 1)

\* Mutant: the keyword is compared as written, not lower-cased
infer_category_keyword_as_written(message, cfg) ==
    LET text == IF message.t = "str" THEN LowerText(message.v) ELSE <<>>
        found == {i \in 1..Len(CATEGORY_PRIORITY) :
                    LET terms == IF IsDict(cfg.keywords)
                                 THEN Get(cfg.keywords, CATEGORY_PRIORITY[i], Null)
                                 ELSE Null
                    IN  /\ terms.t = "list"
                        /\ \E n \in 1..Len(terms.v) :
                               /\ terms.v[n].t = "str"
                               /\ terms.v[n].v # <<>>
                               /\ Contains(text, terms.v[n].v)}
    IN  IF found = {} THEN "acknowledge"
        ELSE CATEGORY_PRIORITY[CHOOSE i \in found : \A j \in found : i <= j]

\* infer_category(message, cfg): message is a str or None
infer_category(message, cfg) ==
    LET text == IF message.t = "str" THEN LowerText(message.v) ELSE <<>>
    IN  InferFrom(text, cfg.keywords, 1)

\* category_enabled(cfg, category)
category_enabled(cfg, category) == Get(cfg.categories, category, TRUE)

\* Mutant: the fallback chain is not walked
resolve_enabled_category_no_fallback(cfg, category) ==
    IF category_enabled(cfg, category) THEN category ELSE ""

\* resolve_enabled_category(cfg, category); "" when nothing is enabled
resolve_enabled_category(cfg, category) ==
    LET candidates == <<category>> \o CATEGORY_FALLBACKS[category]
        enabled == SelectSeq(candidates, LAMBDA c : category_enabled(cfg, c))
    IN  IF enabled = <<>> THEN "" ELSE Head(enabled)

\* _clamped_float(raw, default, minimum)
_clamped_float(raw, default, minimum) ==
    Max(minimum, IF raw.t = "num" THEN raw.v ELSE default)

\* Mutant: the parsed value is not raised to the minimum
_clamped_int_unclamped(raw, default, minimum) ==
    IF raw.t = "num" THEN raw.v ELSE default

\* _clamped_int(raw, default, minimum)
_clamped_int(raw, default, minimum) ==
    Max(minimum, IF raw.t = "num" THEN raw.v ELSE default)

\* _greeting_mode(cfg)
_greeting_mode(cfg) ==
    LET mode == StripLower(cfg.greeting_mode)
    IN  IF mode \in GREETING_MODES THEN mode ELSE "launch"

\* _thread_key(payload)
_thread_key(raw) == IF raw = Blank THEN DefaultKey ELSE raw

\* Mutant: no recorded pid is ever found running
_is_pid_running_never(pid, running) == FALSE

\* _is_pid_running(raw_pid), against the set of running processes
_is_pid_running(pid, running) == pid > 0 /\ pid \in running

\* _cooldown_seconds_for(cfg, category)
_cooldown_seconds_for(cfg, category) ==
    LET cooldowns == cfg.cooldowns_seconds
        raw == Get(cooldowns, category, Get(cooldowns, "default", Num(0)))
    IN  _clamped_float(raw, 0, 0)

\* Mutant: a category with no stamp counts as played at time 0
_is_on_category_cooldown_unplayed_counts(cfg, state, category, now_ts) ==
    LET cooldown_seconds == _cooldown_seconds_for(cfg, category)
        last_ts == Get(state.last_category_ts, category, 0)
    IN  IF cooldown_seconds <= 0 THEN FALSE
        ELSE (now_ts - last_ts) < cooldown_seconds

\* Mutant: the comparison with the cooldown is the wrong way round
_is_on_category_cooldown_inverted(cfg, state, category, now_ts) ==
    LET cooldown_seconds == _cooldown_seconds_for(cfg, category)
        last_ts == Get(state.last_category_ts, category, 0)
    IN  IF cooldown_seconds <= 0 THEN FALSE
        ELSE IF last_ts <= 0 THEN FALSE
        ELSE (now_ts - last_ts) > cooldown_seconds

\* _is_on_category_cooldown(cfg, state, category, now_ts)
_is_on_category_cooldown(cfg, state, category, now_ts) ==
    LET cooldown_seconds == _cooldown_seconds_for(cfg, category)
        last_ts == Get(state.last_category_ts, category, 0)
    IN  IF cooldown_seconds <= 0 THEN FALSE
        ELSE IF last_ts <= 0 THEN FALSE
        ELSE (now_ts - last_ts) < cooldown_seconds

\* Mutant: the recorded pid is cleared as stale without asking whether it runs
_overlap_blocked_always_stale(cfg, state, running) ==
    IF ~cfg.prevent_overlap THEN [blocked |-> FALSE, state |-> state]
    ELSE [blocked |-> FALSE, state |-> [state EXCEPT !.playback_pid = NoPid]]

\* _overlap_blocked(cfg, state): the verdict and the state it leaves
_overlap_blocked(cfg, state, running) ==
    IF ~cfg.prevent_overlap THEN [blocked |-> FALSE, state |-> state]
    ELSE IF _is_pid_running(state.playback_pid, running)
         THEN [blocked |-> TRUE, state |-> state]
         ELSE [blocked |-> FALSE, state |-> [state EXCEPT !.playback_pid = NoPid]]

\* Mutant: one list of turns for all threads, kept under every key
_track_rapid_turns_shared(state, thread_key, now_ts, window_seconds) ==
    LET window == Max(1, window_seconds)
        existing == Get(state.turn_timestamps, thread_key, <<>>)
        kept == Append(SelectSeq(existing, LAMBDA t : now_ts - t <= window), now_ts)
    IN  [state |-> [state EXCEPT !.turn_timestamps =
                        [k \in DOMAIN @ \cup {thread_key} |-> LastN(kept, TurnCap)]],
         count |-> Len(kept)]

\* Mutant: a turn exactly one window old is dropped
_track_rapid_turns_strict(state, thread_key, now_ts, window_seconds) ==
    LET window == Max(1, window_seconds)
        existing == Get(state.turn_timestamps, thread_key, <<>>)
        kept == Append(SelectSeq(existing, LAMBDA t : now_ts - t < window), now_ts)
    IN  [state |-> [state EXCEPT !.turn_timestamps =
                        Put(@, thread_key, LastN(kept, TurnCap))],
         count |-> Len(kept)]

\* _track_rapid_turns(state, thread_key, now_ts, window_seconds)
_track_rapid_turns(state, thread_key, now_ts, window_seconds) ==
    LET window == Max(1, window_seconds)
        existing == Get(state.turn_timestamps, thread_key, <<>>)
        kept == Append(SelectSeq(existing, LAMBDA t : now_ts - t <= window), now_ts)
    IN  [state |-> [state EXCEPT !.turn_timestamps =
                        Put(@, thread_key, LastN(kept, TurnCap))],
         count |-> Len(kept)]

\* Mutant: only a thread not seen before is a session start
_should_play_greeting_new_threads_only(state, thread_key, now_ts, idle_seconds) ==
    LET seen_threads == state.seen_threads
        known_thread == thread_key \in Range(seen_threads)
    IN  [state |-> [state EXCEPT
                        !.seen_threads =
                            IF known_thread THEN @
                            ELSE LastN(Append(@, thread_key), SeenCap),
                        !.last_event_ts = now_ts],
         start |-> ~known_thread]

\* _should_play_greeting(state, thread_key, now_ts, idle_seconds)
_should_play_greeting(state, thread_key, now_ts, idle_seconds) ==
    LET seen_threads == state.seen_threads
        known_thread == thread_key \in Range(seen_threads)
        last_event_ts == state.last_event_ts
        idle_window == Max(1, idle_seconds)
        idle_gap == IF last_event_ts > 0
                    THEN (now_ts - last_event_ts) >= idle_window
                    ELSE TRUE
    IN  [state |-> [state EXCEPT
                        !.seen_threads =
                            IF known_thread THEN @
                            ELSE LastN(Append(@, thread_key), SeenCap),
                        !.last_event_ts = now_ts],
         start |-> (~known_thread) \/ idle_gap]

\* ------------------------------------------------------------ sound packs
PackNames == {"peon", "alt"}
Pids == 1..MaxPid

\* load_manifest(pack) gives None: no such pack, or an unreadable manifest
NoManifest == [loads |-> FALSE, categories |-> EmptyDict, exists |-> {}]

\* A manifest: per category the list of its non-empty file names, and the
\* files that exist under the pack's sounds directory.
Manifest(categories, exists) ==
    [loads |-> TRUE, categories |-> categories, exists |-> exists]

NotFound(state, category) ==
    [found |-> FALSE, file |-> "", used |-> category, state |-> state]

\* Mutant: the file played last is a candidate like any other
Candidates_any_file(files, last) == files

\* pick_sound's candidates: the files less the one played last, unless that
\* leaves none or there is one file only
Candidates(files, last) ==
    LET others == SelectSeq(files, LAMBDA f : f # last)
    IN  IF Len(files) <= 1 THEN files
        ELSE IF others = <<>> THEN files
        ELSE others

\* pick_sound's loop over cat_order: the set of results random.choice allows
RECURSIVE PickFrom(_, _, _, _, _)
PickFrom(state, pack, manifest, cat_order, category) ==
    IF cat_order = <<>> THEN {NotFound(state, category)}
    ELSE LET cat == Head(cat_order)
             files == Get(manifest.categories, cat, <<>>)
         IN  IF files = <<>>
             THEN PickFrom(state, pack, manifest, Tail(cat_order), category)
             ELSE LET state_key == <<pack, cat>>
                      last == Get(state.last_played, state_key, "")
                      candidates == Candidates(files, last)
                  IN  UNION {
                        LET st == [state EXCEPT
                                      !.last_played = Put(@, state_key, picked)]
                        IN  IF picked \in manifest.exists
                            THEN {[found |-> TRUE, file |-> picked,
                                   used |-> cat, state |-> st]}
                            ELSE PickFrom(st, pack, manifest,
                                          Tail(cat_order), category)
                        : picked \in Range(candidates)}

\* pick_sound(cfg, state, category), over the installed packs
pick_sound(cfg, state, category, installed) ==
    LET active == cfg.active_pack
        pack == IF installed[active].loads THEN active ELSE "peon"
        manifest == installed[pack]
    IN  IF ~manifest.loads THEN {NotFound(state, category)}
        ELSE PickFrom(state, pack, manifest,
                      <<category>> \o CATEGORY_FALLBACKS[category], category)

\* play_sound(sound, volume): the pid of the player started, or None when the
\* platform has no player
play_sound(player, running) ==
    IF player THEN {pid \in Pids \ running : \A other \in Pids \ running : pid <= other}
    ELSE {NoPid}

\* What one call of maybe_play_category did
Outcome(state, gate, resolved, used, pid) ==
    [state |-> state, gate |-> gate, played |-> (gate = "played"),
     resolved |-> resolved, used |-> used, pid |-> pid]

\* Mutant: without a process handle the attempt is not counted: no stamp, the
\* recorded pid stays, not played
maybe_play_category_needs_handle(cfg, state, category, now_ts, installed, player, running) ==
    LET resolved_category == resolve_enabled_category(cfg, category)
        overlap == _overlap_blocked(cfg, state, running)
    IN  IF resolved_category = ""
        THEN {Outcome(state, "disabled", "", "", NoPid)}
        ELSE IF _is_on_category_cooldown(cfg, state, resolved_category, now_ts)
        THEN {Outcome(state, "cooldown", resolved_category, "", NoPid)}
        ELSE IF overlap.blocked
        THEN {Outcome(overlap.state, "overlap", resolved_category, "", NoPid)}
        ELSE UNION {
               IF ~pick.found
               THEN {Outcome(pick.state, "nosound", resolved_category, "", NoPid)}
               ELSE {IF playback_pid = NoPid
                     THEN Outcome(pick.state, "noplayer", resolved_category,
                                  pick.used, NoPid)
                     ELSE Outcome([pick.state EXCEPT
                                     !.last_category_ts = Put(@, pick.used, now_ts),
                                     !.playback_pid = playback_pid],
                                  "played", resolved_category, pick.used, playback_pid)
                     : playback_pid \in play_sound(player, running)}
               : pick \in pick_sound(cfg, overlap.state, resolved_category, installed)}

\* Mutant: the resolved category is stamped although no sound was found
maybe_play_category_stamps_unfound(cfg, state, category, now_ts, installed, player, running) ==
    LET resolved_category == resolve_enabled_category(cfg, category)
        overlap == _overlap_blocked(cfg, state, running)
    IN  IF resolved_category = ""
        THEN {Outcome(state, "disabled", "", "", NoPid)}
        ELSE IF _is_on_category_cooldown(cfg, state, resolved_category, now_ts)
        THEN {Outcome(state, "cooldown", resolved_category, "", NoPid)}
        ELSE IF overlap.blocked
        THEN {Outcome(overlap.state, "overlap", resolved_category, "", NoPid)}
        ELSE UNION {
               IF ~pick.found
               THEN {Outcome([pick.state EXCEPT
                                 !.last_category_ts =
                                     Put(@, resolved_category, now_ts)],
                             "nosound", resolved_category, "", NoPid)}
               ELSE {Outcome([pick.state EXCEPT
                                 !.last_category_ts = Put(@, pick.used, now_ts),
                                 !.playback_pid = playback_pid],
                             "played", resolved_category, pick.used, playback_pid)
                     : playback_pid \in play_sound(player, running)}
               : pick \in pick_sound(cfg, overlap.state, resolved_category, installed)}

\* maybe_play_category(cfg, state, category, now_ts): the set of outcomes the
\* random choice and the player allow
maybe_play_category(cfg, state, category, now_ts, installed, player, running) ==
    LET resolved_category == resolve_enabled_category(cfg, category)
        overlap == _overlap_blocked(cfg, state, running)
    IN  IF resolved_category = ""
        THEN {Outcome(state, "disabled", "", "", NoPid)}
        ELSE IF _is_on_category_cooldown(cfg, state, resolved_category, now_ts)
        THEN {Outcome(state, "cooldown", resolved_category, "", NoPid)}
        ELSE IF overlap.blocked
        THEN {Outcome(overlap.state, "overlap", resolved_category, "", NoPid)}
        ELSE UNION {
               IF ~pick.found
               THEN {Outcome(pick.state, "nosound", resolved_category, "", NoPid)}
               ELSE {Outcome([pick.state EXCEPT
                                 !.last_category_ts = Put(@, pick.used, now_ts),
                                 !.playback_pid = playback_pid],
                             "played", resolved_category, pick.used, playback_pid)
                     : playback_pid \in play_sound(player, running)}
               : pick \in pick_sound(cfg, overlap.state, resolved_category, installed)}

PriorityCategories == {"permission", "error", "resource_limit"}

\* Mutant: the classified priority category wins over a session-start greeting
preferred_category_priority_first(cfg, is_session_start, inferred_category, rapid_count) ==
    LET should_greet_on_turn_start == _greeting_mode(cfg) \in {"turn_start", "both"}
        annoyed_threshold == _clamped_int(cfg.annoyed_threshold, 3, 2)
    IN  IF inferred_category \in PriorityCategories THEN inferred_category
        ELSE IF is_session_start /\ should_greet_on_turn_start THEN "greeting"
        ELSE IF rapid_count >= annoyed_threshold /\ category_enabled(cfg, "annoyed")
        THEN "annoyed"
        ELSE inferred_category

\* Mutant: the rapid-turn test comes before the priority categories
preferred_category_rapid_first(cfg, is_session_start, inferred_category, rapid_count) ==
    LET should_greet_on_turn_start == _greeting_mode(cfg) \in {"turn_start", "both"}
        annoyed_threshold == _clamped_int(cfg.annoyed_threshold, 3, 2)
    IN  IF is_session_start /\ should_greet_on_turn_start THEN "greeting"
        ELSE IF rapid_count >= annoyed_threshold /\ category_enabled(cfg, "annoyed")
        THEN "annoyed"
        ELSE inferred_category

\* Mutant: launch mode greets on turn start too
preferred_category_greets_in_launch_mode(cfg, is_session_start, inferred_category, rapid_count) ==
    LET should_greet_on_turn_start == _greeting_mode(cfg) \in {"launch", "turn_start", "both"}
        annoyed_threshold == _clamped_int(cfg.annoyed_threshold, 3, 2)
    IN  IF is_session_start /\ should_greet_on_turn_start THEN "greeting"
        ELSE IF inferred_category \in PriorityCategories THEN inferred_category
        ELSE IF rapid_count >= annoyed_threshold /\ category_enabled(cfg, "annoyed")
        THEN "annoyed"
        ELSE inferred_category

\* Mutant: the pause flag is not looked at
hook_is_off_ignoring_pause(cfg, is_paused) == ~cfg.enabled

\* handle_hook_payload's early return: disabled in the config, or paused
hook_is_off(cfg, is_paused) == ~cfg.enabled \/ is_paused

\* handle_hook_payload's choice of the category it asks for
preferred_category(cfg, is_session_start, inferred_category, rapid_count) ==
    LET should_greet_on_turn_start == _greeting_mode(cfg) \in {"turn_start", "both"}
        annoyed_threshold == _clamped_int(cfg.annoyed_threshold, 3, 2)
    IN  IF is_session_start /\ should_greet_on_turn_start THEN "greeting"
        ELSE IF inferred_category \in {"permission", "error", "resource_limit"}
        THEN inferred_category
        ELSE IF rapid_count >= annoyed_threshold /\ category_enabled(cfg, "annoyed")
        THEN "annoyed"
        ELSE inferred_category

\* ------------------------------------------------------------------- state
VARIABLES
    config_file,    \* config.json, as last written
    state_file,     \* .state.json, as last written (EmptyDict: no file yet)
    paused,         \* whether the .paused flag file exists
    installed,      \* the packs directory: pack name -> manifest
    backend,        \* whether the platform has a sound player
    now,            \* the clock, time.time()
    running,        \* the pids of the processes alive
    last,           \* what the last call did (observation only)
    inflight        \* the hook invocations under way, step by step

vars ==
    <<config_file, state_file, paused, installed, backend, now, running, last,
      inflight>>

\* ---------------------------------------------------------------- inputs
ThreadIds == (1..MaxThreads) \cup {Blank}

\* Values of the payload's "last-assistant-message"
Done == Str(<<"D","o","n","e">>)
ApproveThis == Str(<<"A","p","p","r","o","v","e"," ","t","h","i","s">>)
AccessDenied == Str(<<"a","c","c","e","s","s"," ","D","E","N","I","E","D">>)
QuotaError == Str(<<"Q","u","o","t","a"," ","e","r","r","o","r">>)
DeniedApproval == Str(<<"D","e","n","i","e","d",":"," ","a","p","p","r","o","v","e"," ","t","h","i","s">>)
EmptyMessage == Str(<<>>)

\* ... a string, or absent (None), or a value that is no string
Messages ==
    {Done, ApproveThis, AccessDenied, QuotaError, DeniedApproval, EmptyMessage,
     Null, Number(<<"4","2","9">>)}

\* The user's config.json: each part is a set of ways of writing (or leaving
\* out) some keys; a config is the union of one choice per part.
GreetingParts ==
    {EmptyDict, [greeting_mode |-> "turn_start"], [greeting_mode |-> " Both"],
     [greeting_mode |-> "off"]}

CategoryParts ==
    {EmptyDict,
     [categories |-> [greeting |-> FALSE, acknowledge |-> FALSE]],
     [categories |-> [annoyed |-> FALSE]],
     [categories |-> [c \in Categories |-> FALSE]]}

AnnoyedParts ==
    {EmptyDict,
     [annoyed_threshold |-> Num(2), annoyed_window_seconds |-> Num(1)]}

IdleParts == {EmptyDict, [session_start_idle_seconds |-> Num(1)]}

OverlapParts == {EmptyDict, [prevent_overlap |-> FALSE]}

CooldownParts ==
    {EmptyDict,
     [cooldowns_seconds |-> [acknowledge |-> Num(999)]],
     [cooldowns_seconds |-> [acknowledge |-> Num(2), annoyed |-> Num(1)]]}

Configs(parts) ==
    {MergeFlat(p[1], MergeFlat(p[2], MergeFlat(p[3], p[4]))) :
        p \in parts[1] \X parts[2] \X parts[3] \X parts[4]}

OneSound == [c \in Categories |-> <<"a.wav">>]

TestPack == [peon |-> Manifest(OneSound, {"a.wav"}), alt |-> NoManifest]

\* A pack whose manifest has sounds for complete only
FallbackPack ==
    [peon |-> Manifest([complete |-> <<"a.wav">>], {"a.wav"}), alt |-> NoManifest]

\* A pack whose manifest names a file that is not in its sounds directory
SilentPack ==
    [peon |-> Manifest([acknowledge |-> <<"a.wav">>], {}), alt |-> NoManifest]

\* The turns turn_timestamps holds, over all threads
RECURSIVE Held(_, _)
Held(turn_timestamps, keys) ==
    IF keys = {} THEN 0
    ELSE LET k == CHOOSE x \in keys : TRUE
         IN  Len(turn_timestamps[k]) + Held(turn_timestamps, keys \ {k})

\* Two hook invocations may be under way at once: codex starts one process
\* per event and waits for none
Invocations == {"first", "second"}

\* An invocation that is not under way (raced: it once loaded the state while
\* the other invocation was between its load and the end of its save)
NotStarted ==
    [pc |-> "idle", raced |-> FALSE, cfg |-> EmptyDict, state |-> DEFAULT_STATE,
     thread_id |-> Blank, message |-> Null, old |-> EmptyDict]

\* What `last` holds after a call that is no playback decision
Idle(op) ==
    [op |-> op, key |-> DefaultKey, inferred |-> "", rapid_count |-> 0,
     start |-> FALSE, preferred |-> "", gate |-> "", played |-> FALSE,
     resolved |-> "", used |-> "", pid |-> NoPid, result |-> "return 0",
     message |-> Null, codex_args |-> <<>>, argv |-> <<>>,
     saved |-> DEFAULT_STATE]

\* The state after installation: no state file, not paused, the clock running
InitWith(configs, packs, backends) ==
    /\ config_file \in configs
    /\ state_file = EmptyDict
    /\ paused = FALSE
    /\ installed \in packs
    /\ backend \in backends
    /\ now = 1
    /\ running = {}
    /\ last = Idle("none")
    /\ inflight = [p \in Invocations |-> NotStarted]

\* The config and the session state as the next call will load them
Cfg == load_config(config_file)
State == load_state(state_file)

\* ---------------------------------------------------------------- actions
\* Mutant: the state is saved only when a sound was played
handle_hook_payload_saves_when_played(thread_id, message, now_ts) ==
    LET cfg == load_config(config_file)
    IN  /\ config_file' = cfg
        /\ UNCHANGED <<paused, installed, backend, inflight>>
        /\ IF hook_is_off(cfg, paused)
           THEN /\ UNCHANGED <<state_file, running, now>>
                /\ last' = Idle("hook_off")
           ELSE LET state == load_state(state_file)
                    thread_key == _thread_key(thread_id)
                    rapid == _track_rapid_turns(state, thread_key, now_ts,
                                 _clamped_float(cfg.annoyed_window_seconds, 10, 1))
                    greet == _should_play_greeting(rapid.state, thread_key, now_ts,
                                 _clamped_float(cfg.session_start_idle_seconds, 120, 1))
                    inferred_category ==
                        infer_category(IF message.t = "str" THEN message
                                       ELSE EmptyMessage, cfg)
                    preferred == preferred_category(cfg, greet.start,
                                     inferred_category, rapid.count)
                IN  \E out \in maybe_play_category(cfg, greet.state, preferred,
                                   now_ts, installed, backend, running) :
                        /\ now' = now_ts
                        /\ state_file' = IF out.played THEN save_state(out.state)
                                         ELSE state_file
                        /\ running' = IF out.pid # NoPid
                                      THEN running \cup {out.pid} ELSE running
                        /\ last' = [op |-> "hook", key |-> thread_key,
                                    inferred |-> inferred_category,
                                    rapid_count |-> rapid.count,
                                    start |-> greet.start,
                                    preferred |-> preferred,
                                    gate |-> out.gate, played |-> out.played,
                                    resolved |-> out.resolved,
                                    used |-> out.used, pid |-> out.pid,
                                    result |-> "return 0",
                                    message |-> message,
                                    codex_args |-> <<>>, argv |-> <<>>,
                                    saved |-> out.state]

\* handle_hook_payload(raw_payload) for an agent-turn-complete payload
\* (now_ts: what time.time() returns to it)
handle_hook_payload(thread_id, message, now_ts) ==
    LET cfg == load_config(config_file)
    IN  /\ config_file' = cfg
        /\ UNCHANGED <<paused, installed, backend, inflight>>
        /\ IF hook_is_off(cfg, paused)
           THEN /\ UNCHANGED <<state_file, running, now>>
                /\ last' = Idle("hook_off")
           ELSE LET state == load_state(state_file)
                    thread_key == _thread_key(thread_id)
                    rapid == _track_rapid_turns(state, thread_key, now_ts,
                                 _clamped_float(cfg.annoyed_window_seconds, 10, 1))
                    greet == _should_play_greeting(rapid.state, thread_key, now_ts,
                                 _clamped_float(cfg.session_start_idle_seconds, 120, 1))
                    inferred_category ==
                        infer_category(IF message.t = "str" THEN message
                                       ELSE EmptyMessage, cfg)
                    preferred == preferred_category(cfg, greet.start,
                                     inferred_category, rapid.count)
                IN  \E out \in maybe_play_category(cfg, greet.state, preferred,
                                   now_ts, installed, backend, running) :
                        /\ now' = now_ts
                        /\ state_file' = save_state(out.state)
                        /\ running' = IF out.pid # NoPid
                                      THEN running \cup {out.pid} ELSE running
                        /\ last' = [op |-> "hook", key |-> thread_key,
                                    inferred |-> inferred_category,
                                    rapid_count |-> rapid.count,
                                    start |-> greet.start,
                                    preferred |-> preferred,
                                    gate |-> out.gate, played |-> out.played,
                                    resolved |-> out.resolved,
                                    used |-> out.used, pid |-> out.pid,
                                    result |-> "return 0",
                                    message |-> message,
                                    codex_args |-> <<>>, argv |-> <<>>,
                                    saved |-> out.state]

\* The payloads handle_hook_payload turns away before it loads the config
PayloadKinds == {"invalid_json", "not_object", "no_type", "wrong_type"}

\* handle_hook_payload(raw_payload) for a payload that is no
\* agent-turn-complete object: json.loads raises JSONDecodeError (caught), or
\* gives a value that is no dict, on which payload.get raises AttributeError
\* (not caught), or gives a dict whose "type" is missing or another one
handle_hook_payload_rejected(kind) ==
    /\ kind \in PayloadKinds
    /\ last' = [Idle("hook_rejected") EXCEPT
                   !.result = IF kind = "not_object" THEN "AttributeError"
                              ELSE "return 0"]
    /\ UNCHANGED <<config_file, state_file, paused, installed, backend, now, running, inflight>>

\* Mutant: the launch greets whatever the greeting mode
launch_greets_in_any_mode(cfg, is_paused) == cfg.enabled /\ ~is_paused

\* cmd_launch's test for the greeting
launch_greets(cfg, is_paused) ==
    cfg.enabled /\ ~is_paused /\ _greeting_mode(cfg) \in {"launch", "both"}

\* cmd_launch's forward_args: codex_args less one leading "--"
forward_args(codex_args) ==
    IF codex_args # <<>> /\ Head(codex_args) = "--" THEN Tail(codex_args)
    ELSE codex_args

\* How cmd_launch ends: without codex on the PATH it returns 1, otherwise
\* os.execv replaces the process (argv[0] is codex itself)
Launched(op, codex_args, codex_exe) ==
    [Idle(op) EXCEPT
        !.codex_args = codex_args,
        !.argv = IF codex_exe THEN <<"codex">> \o forward_args(codex_args) ELSE <<>>,
        !.result = IF codex_exe THEN "exec" ELSE "return 1"]

\* cmd_launch(codex_args)  (codex_exe: whether shutil.which finds codex)
cmd_launch(codex_args, codex_exe, now_ts) ==
    LET cfg == load_config(config_file)
    IN  /\ config_file' = cfg
        /\ UNCHANGED <<paused, installed, backend, inflight>>
        /\ IF launch_greets(cfg, paused)
           THEN \E out \in maybe_play_category(cfg, load_state(state_file),
                               "greeting", now_ts, installed, backend, running) :
                    /\ now' = now_ts
                    /\ state_file' = save_state(out.state)
                    /\ running' = IF out.pid # NoPid
                                  THEN running \cup {out.pid} ELSE running
                    /\ last' = [Launched("launch", codex_args, codex_exe) EXCEPT
                                   !.preferred = "greeting",
                                   !.gate = out.gate, !.played = out.played,
                                   !.resolved = out.resolved,
                                   !.used = out.used, !.pid = out.pid,
                                   !.saved = out.state]
           ELSE /\ UNCHANGED <<state_file, running, now>>
                /\ last' = Launched("launch_off", codex_args, codex_exe)

\* cmd_pause()
cmd_pause ==
    /\ paused' = TRUE
    /\ last' = Idle("none")
    /\ UNCHANGED <<config_file, state_file, installed, backend, now, running, inflight>>

\* cmd_resume()
cmd_resume ==
    /\ paused' = FALSE
    /\ last' = Idle("none")
    /\ UNCHANGED <<config_file, state_file, installed, backend, now, running, inflight>>

\* cmd_toggle()
cmd_toggle ==
    /\ paused' = ~paused
    /\ last' = Idle("none")
    /\ UNCHANGED <<config_file, state_file, installed, backend, now, running, inflight>>

\* cmd_enable(flag)
cmd_enable(flag) ==
    /\ config_file' = [load_config(config_file) EXCEPT !.enabled = flag]
    /\ last' = Idle("none")
    /\ UNCHANGED <<state_file, paused, installed, backend, now, running, inflight>>

\* A player process ends
ProcessExit(pid) ==
    /\ pid \in running
    /\ running' = running \ {pid}
    /\ last' = Idle("none")
    /\ UNCHANGED <<config_file, state_file, paused, installed, backend, now, inflight>>

\* Another process of the user starts and the system gives it a pid that is
\* free, possibly that of a player that has exited: os.kill(pid, 0) asks for
\* the pid only and succeeds for it
PidReused(pid) ==
    /\ pid \in Pids \ running
    /\ running' = running \cup {pid}
    /\ last' = [Idle("pid_reused") EXCEPT !.pid = pid]
    /\ UNCHANGED <<config_file, state_file, paused, installed, backend, now, inflight>>

\* The platform's player is installed or removed (shutil.which is asked on
\* every call)
PlayerChange ==
    /\ backend' = ~backend
    /\ last' = Idle("none")
    /\ UNCHANGED <<config_file, state_file, paused, installed, now, running, inflight>>

\* The clock readings the model explores: time.time() never runs backwards
Clock == now..MaxNow

\* The model explores the hook while turn_timestamps holds fewer than
\* MaxTurns turns
HookUpTo(turns, thread_ids, messages) ==
    /\ LET held == load_state(state_file).turn_timestamps
       IN  Held(held, DOMAIN held) < turns
    /\ \E thread_id \in thread_ids, message \in messages, now_ts \in Clock :
           handle_hook_payload(thread_id, message, now_ts)

Hook(thread_ids, messages) == HookUpTo(MaxTurns, thread_ids, messages)

\* One invocation of handle_hook_payload, step by step, for the runs in which
\* two invocations are under way at once.  First step: load_config, the two
\* early returns, load_state.
HookLoad(p, thread_id, message) ==
    LET cfg == load_config(config_file)
        under_way == {q \in Invocations \ {p} : inflight[q].pc # "idle"}
    IN  /\ inflight[p].pc = "idle"
        /\ LET held == load_state(state_file).turn_timestamps
           IN  Held(held, DOMAIN held) < MaxTurns
        /\ config_file' = cfg
        /\ inflight' =
              IF hook_is_off(cfg, paused) THEN inflight
              ELSE [inflight EXCEPT ![p] =
                       [pc |-> "loaded",
                        raced |-> @.raced \/ under_way # {},
                        cfg |-> cfg,
                        state |-> load_state(state_file),
                        thread_id |-> thread_id,
                        message |-> message,
                        old |-> EmptyDict]]
        /\ UNCHANGED <<state_file, paused, installed, backend, now, running, last>>

\* Second step: the clock reading, the trackers, the choice of the category
\* and maybe_play_category, all on the state held in memory
HookDecide(p, now_ts) ==
    LET cfg == inflight[p].cfg
        message == inflight[p].message
        thread_key == _thread_key(inflight[p].thread_id)
        rapid == _track_rapid_turns(inflight[p].state, thread_key, now_ts,
                     _clamped_float(cfg.annoyed_window_seconds, 10, 1))
        greet == _should_play_greeting(rapid.state, thread_key, now_ts,
                     _clamped_float(cfg.session_start_idle_seconds, 120, 1))
        inferred_category ==
            infer_category(IF message.t = "str" THEN message ELSE EmptyMessage, cfg)
        preferred == preferred_category(cfg, greet.start, inferred_category,
                                        rapid.count)
    IN  /\ inflight[p].pc = "loaded"
        /\ \E out \in maybe_play_category(cfg, greet.state, preferred, now_ts,
                                          installed, backend, running) :
              /\ now' = now_ts
              /\ running' = IF out.pid # NoPid
                            THEN running \cup {out.pid} ELSE running
              /\ inflight' = [inflight EXCEPT ![p].pc = "decided",
                                              ![p].state = out.state]
              /\ last' = [op |-> "hook", key |-> thread_key,
                          inferred |-> inferred_category,
                          rapid_count |-> rapid.count,
                          start |-> greet.start,
                          preferred |-> preferred,
                          gate |-> out.gate, played |-> out.played,
                          resolved |-> out.resolved,
                          used |-> out.used, pid |-> out.pid,
                          result |-> "return 0",
                          message |-> message,
                          codex_args |-> <<>>, argv |-> <<>>,
                          saved |-> out.state]
        /\ UNCHANGED <<config_file, state_file, paused, installed, backend>>

\* Third step: save_state opens the state file for writing, which empties it
\* (an empty file and a missing one load alike: _load_json gives the default)
HookTruncate(p) ==
    /\ inflight[p].pc = "decided"
    /\ state_file' = EmptyDict
    /\ inflight' = [inflight EXCEPT ![p].pc = "saving", ![p].old = state_file]
    /\ UNCHANGED <<config_file, paused, installed, backend, now, running, last>>

\* Last step: json.dump and the close of the file put the state there; the
\* invocation returns 0
HookWrite(p) ==
    /\ inflight[p].pc = "saving"
    /\ state_file' = save_state(inflight[p].state)
    /\ inflight' = [inflight EXCEPT ![p] =
                       [NotStarted EXCEPT !.raced = inflight[p].raced]]
    /\ UNCHANGED <<config_file, paused, installed, backend, now, running, last>>

\* ------------------------------------------------------------ the program
Init == InitWith({EmptyDict}, {TestPack}, BOOLEAN)

Next ==
    \/ Hook(ThreadIds, {Done})
    \/ \E kind \in PayloadKinds : handle_hook_payload_rejected(kind)
    \/ \E now_ts \in Clock : cmd_launch(<<>>, TRUE, now_ts)
    \/ cmd_pause
    \/ cmd_resume
    \/ cmd_toggle
    \/ \E flag \in BOOLEAN : cmd_enable(flag)
    \/ \E pid \in Pids : ProcessExit(pid)

Spec == Init /\ [][Next]_vars

\* ------------------------------------------- the dispatch of one event
DispatchConfigs ==
    Configs(<<{EmptyDict}, CategoryParts, AnnoyedParts, {EmptyDict}>>)
    \cup Configs(<<{[greeting_mode |-> "turn_start"], [greeting_mode |-> " Both"]},
                   {EmptyDict, [categories |-> [greeting |-> FALSE,
                                                acknowledge |-> FALSE]]},
                   AnnoyedParts, IdleParts>>)

InitDispatch == InitWith(DispatchConfigs, {TestPack}, {FALSE})

NextDispatch == Hook(ThreadIds, {Done, ApproveThis, QuotaError})

SpecDispatch == InitDispatch /\ [][NextDispatch]_vars

\* ------------------------------------ the admission gates of one event
AdmissionConfigs ==
    Configs(<<CooldownParts, OverlapParts, {EmptyDict}, {EmptyDict}>>)

InitAdmission == InitWith(AdmissionConfigs, {TestPack}, BOOLEAN)

NextAdmission ==
    \/ Hook(ThreadIds, {Done, ApproveThis})
    \/ \E pid \in Pids : ProcessExit(pid)

SpecAdmission == InitAdmission /\ [][NextAdmission]_vars

\* ------------------------------------- session starts over three events
IdleConfigs ==
    Configs(<<{[greeting_mode |-> "turn_start"]}, {EmptyDict}, {EmptyDict},
              IdleParts \cup {[session_start_idle_seconds |-> Num(0)]}>>)

InitIdle == InitWith(IdleConfigs, {TestPack}, {FALSE})

NextIdle == HookUpTo(MaxTurns + 1, ThreadIds, {Done})

SpecIdle == InitIdle /\ [][NextIdle]_vars

\* ----------------------------------------------------- launching codex
\* Arguments after "launch": none, "--" before a flag, "--" twice, a bare flag
ArgLists == {<<>>, <<"--", "--help">>, <<"--", "--", "x">>, <<"--help">>}

InitLaunch ==
    InitWith(Configs(<<GreetingParts, {EmptyDict}, {EmptyDict}, {EmptyDict}>>),
             {TestPack}, {FALSE})

NextLaunch ==
    \/ Hook(ThreadIds, {Done})
    \/ \E codex_args \in ArgLists, codex_exe \in BOOLEAN, now_ts \in Clock :
           cmd_launch(codex_args, codex_exe, now_ts)
    \/ cmd_toggle
    \/ \E flag \in BOOLEAN : cmd_enable(flag)

SpecLaunch == InitLaunch /\ [][NextLaunch]_vars

\* ------------------------------------------ the classification of a message
\* The "keywords" of the user's config.json: left out; an upper-case keyword
\* next to an empty one and a number; a string where a list belongs; a string
\* where the dict belongs; a list for a category outside CATEGORY_PRIORITY and
\* an empty list
KeywordConfigs ==
    {EmptyDict,
     [keywords |-> [resource_limit |->
                        List(<< Str(<<>>), Number(<<"4","2","9">>),
                                Str(<<"D","O","N","E">>) >>)]],
     [keywords |-> [error |-> Str(<<"d","o","n","e">>)]],
     [keywords |-> Str(<<"q","u","o","t","a">>)],
     [keywords |-> [greeting |-> List(<< Str(<<"d","o","n","e">>) >>),
                    permission |-> List(<<>>)]]}

InitClassify == InitWith(KeywordConfigs, {TestPack}, {FALSE})

NextClassify == Hook({Blank}, Messages)

SpecClassify == InitClassify /\ [][NextClassify]_vars

\* ------------------------------------- every way an admission can end
GateConfigs ==
    {EmptyDict,
     [cooldowns_seconds |-> [acknowledge |-> Num(999)]],
     [cooldowns_seconds |-> [acknowledge |-> Num(-1)]],
     [cooldowns_seconds |-> [acknowledge |-> Num(2), complete |-> Num(2)]],
     [cooldowns_seconds |-> [acknowledge |-> Num(999)], prevent_overlap |-> FALSE],
     [categories |-> [c \in Categories |-> FALSE]]}

InitGates == InitWith(GateConfigs, {TestPack, FallbackPack, SilentPack}, {TRUE})

NextGates ==
    \/ Hook(ThreadIds, {Done})
    \/ \E pid \in Pids : ProcessExit(pid)

SpecGates == InitGates /\ [][NextGates]_vars

\* ------------------------------------------- the selection of a sound
\* Packs: sounds for permission only; two sounds for acknowledge; two sounds
\* listed for acknowledge of which one is not in the sounds directory
PermissionPack ==
    [peon |-> Manifest([permission |-> <<"a.wav">>], {"a.wav"}), alt |-> NoManifest]

TwoSoundPack ==
    [peon |-> Manifest([acknowledge |-> <<"a.wav", "b.wav">>], {"a.wav", "b.wav"}),
     alt |-> NoManifest]

MissingPack ==
    [peon |-> Manifest([acknowledge |-> <<"a.wav", "b.wav">>,
                        complete |-> <<"c.wav">>], {"a.wav", "c.wav"}),
     alt |-> NoManifest]

\* A second pack next to peon, with two sounds for acknowledge
AltPack ==
    [peon |-> Manifest(OneSound, {"a.wav"}),
     alt |-> Manifest([acknowledge |-> <<"a.wav", "b.wav">>], {"a.wav", "b.wav"})]

SelectConfigs ==
    {EmptyDict,
     [categories |-> [complete |-> FALSE]],
     [prevent_overlap |-> FALSE],
     [active_pack |-> "alt", prevent_overlap |-> FALSE]}

InitSelect ==
    InitWith(SelectConfigs,
             {FallbackPack, PermissionPack, TwoSoundPack, MissingPack, AltPack},
             {TRUE})

NextSelect ==
    \/ Hook({Blank}, {Done, ApproveThis})
    \/ \E pid \in Pids : ProcessExit(pid)

SpecSelect == InitSelect /\ [][NextSelect]_vars

\* ------------------------------- the annoyed threshold, as configured
\* annoyed_threshold left out, 2, 1, 0, negative, and no number at all
ThresholdConfigs ==
    {EmptyDict,
     [annoyed_threshold |-> Num(2)],
     [annoyed_threshold |-> Num(1)],
     [annoyed_threshold |-> Num(0)],
     [annoyed_threshold |-> Num(-5)],
     [annoyed_threshold |-> NotANumber],
     [annoyed_threshold |-> Num(0), categories |-> [annoyed |-> FALSE]]}

InitThreshold == InitWith(ThresholdConfigs, {TestPack}, {FALSE})

NextThreshold == HookUpTo(MaxTurns + 1, ThreadIds, {Done})

SpecThreshold == InitThreshold /\ [][NextThreshold]_vars

\* ------------------------------- the default entry of the cooldowns
\* The user's config.json: no cooldowns; the default entry alone; the default
\* entry next to one for complete
DefaultCooldownConfigs ==
    {EmptyDict,
     [cooldowns_seconds |-> [default |-> Num(999)]],
     [cooldowns_seconds |-> [default |-> Num(1)], prevent_overlap |-> FALSE],
     [cooldowns_seconds |-> [default |-> Num(999), complete |-> Num(1)]]}

InitDefaultCooldown == InitWith(DefaultCooldownConfigs, {TestPack}, BOOLEAN)

NextDefaultCooldown ==
    \/ Hook(ThreadIds, {Done, ApproveThis})
    \/ \E pid \in Pids : ProcessExit(pid)

SpecDefaultCooldown == InitDefaultCooldown /\ [][NextDefaultCooldown]_vars

\* ------------------------------- two hook invocations under way at once
InitRace == InitWith({EmptyDict}, {TestPack}, {TRUE})

\* (the invocations of one burst read the same second off the clock)
NextRace ==
    \/ \E p \in Invocations : HookLoad(p, Blank, Done)
    \/ \E p \in Invocations : HookDecide(p, now)
    \/ \E p \in Invocations : HookTruncate(p)
    \/ \E p \in Invocations : HookWrite(p)
    \/ \E pid \in Pids : ProcessExit(pid)

SpecRace == InitRace /\ [][NextRace]_vars

\* ------------------------------- the liveness probe of the recorded pid
ProbeConfigs ==
    {EmptyDict,
     [cooldowns_seconds |-> [acknowledge |-> Num(1)]],
     [prevent_overlap |-> FALSE]}

InitProbe == InitWith(ProbeConfigs, {TestPack}, {TRUE})

NextProbe ==
    \/ Hook(ThreadIds, {Done})
    \/ \E pid \in Pids : ProcessExit(pid)
    \/ \E pid \in Pids : PidReused(pid)

SpecProbe == InitProbe /\ [][NextProbe]_vars

\* ------------------------------- the player comes and goes between calls
PlayerConfigs ==
    Configs(<<{EmptyDict, [cooldowns_seconds |-> [acknowledge |-> Num(2)]]},
              OverlapParts, {EmptyDict}, {EmptyDict}>>)

InitPlayer == InitWith(PlayerConfigs, {TestPack}, BOOLEAN)

NextPlayer ==
    \/ Hook(ThreadIds, {Done})
    \/ \E pid \in Pids : ProcessExit(pid)
    \/ PlayerChange

SpecPlayer == InitPlayer /\ [][NextPlayer]_vars

\* ------------------------------------------ long runs: the caps of the state
\* Thread 1 takes a burst of turns one second apart, all within a window of 60
\* seconds; threads 2, 3, ... each take a turn, and thread 2 may come back, at
\* the clock reading the burst ended on.  The other threads are explored from
\* two points: before thread 1 has turned, and once its list is full.
InitGrowth ==
    InitWith({[annoyed_window_seconds |-> Num(60)]}, {TestPack}, {FALSE})

OnlyThreadOne == DOMAIN State.turn_timestamps \subseteq {1}

Threads == DOMAIN State.turn_timestamps \cup {1}

GrowthBurst ==
    /\ OnlyThreadOne
    /\ now < TurnCap + MaxExtra
    /\ handle_hook_payload(1, Done, now + 1)

GrowthFresh ==
    /\ Len(Get(State.turn_timestamps, 1, <<>>)) \in {0, TurnCap}
    /\ Cardinality(Threads) < SeenCap + MaxExtra
    /\ handle_hook_payload(Cardinality(Threads) + 1, Done, now)

GrowthReturn ==
    /\ 2 \in DOMAIN State.turn_timestamps
    /\ Len(State.turn_timestamps[2]) < 2
    /\ handle_hook_payload(2, Done, now)

NextGrowth ==
    \/ GrowthBurst
    \/ GrowthFresh
    \/ GrowthReturn

SpecGrowth == InitGrowth /\ [][NextGrowth]_vars

\* --------------------------------------------------------------- claims
GreetsOnTurnStart == _greeting_mode(Cfg) \in {"turn_start", "both"}

\* C1: for every processed agent-turn-complete event the category handed to
\* the admission policy is: greeting if the event is a session start and the
\* greeting mode is turn_start or both; otherwise the classified category if
\* it is permission, error or resource_limit; otherwise annoyed if the
\* thread's rapid-turn count is >= annoyed_threshold and annoyed is enabled;
\* otherwise the classified category.
C1_PreferredByPriority ==
    last.op = "hook" =>
        /\ last.inferred \in PriorityCategories \cup {"acknowledge"}
        /\ last.preferred =
              IF last.start /\ GreetsOnTurnStart THEN "greeting"
              ELSE IF last.inferred \in PriorityCategories THEN last.inferred
              ELSE IF /\ last.rapid_count >= Cfg.annoyed_threshold.v
                      /\ Cfg.categories["annoyed"]
              THEN "annoyed"
              ELSE last.inferred

\* An event classified acknowledge is dispatched as annoyed
C1_Witness ==
    /\ last.op = "hook"
    /\ last.inferred = "acknowledge"
    /\ last.preferred = "annoyed"
    /\ ~last.start

\* C2: an event whose message classifies as permission, error or
\* resource_limit is never dispatched as annoyed (neither asked for, resolved
\* nor played as annoyed), whatever the thread's rapid-turn count.
C2_PriorityNeverAnnoyed ==
    (last.op = "hook" /\ last.inferred \in PriorityCategories) =>
        /\ last.preferred # "annoyed"
        /\ last.resolved # "annoyed"
        /\ last.used # "annoyed"

\* A permission message arrives when the rapid-turn count has reached the
\* threshold and annoyed is enabled
C2_Witness ==
    /\ last.op = "hook"
    /\ last.inferred = "permission"
    /\ last.rapid_count >= Cfg.annoyed_threshold.v
    /\ Cfg.categories["annoyed"]
    /\ ~(last.start /\ GreetsOnTurnStart)
    /\ last.preferred = "permission"

\* The step is a processed plain-acknowledgement turn of a thread that has an
\* earlier turn within annoyed_window_seconds, under annoyed_threshold = 2 and
\* annoyed enabled
C3_SecondRapidTurn ==
    /\ last'.op = "hook"
    /\ last'.inferred = "acknowledge"
    /\ Cfg.annoyed_threshold = Num(2)
    /\ Cfg.categories["annoyed"]
    /\ LET earlier == Get(State.turn_timestamps, last'.key, <<>>)
       IN  \E i \in 1..Len(earlier) :
               now' - earlier[i] <= Cfg.annoyed_window_seconds.v

\* C3 as stated: with annoyed_threshold = 2 and annoyed enabled, the second of
\* two plain turns of a thread within annoyed_window_seconds is dispatched as
\* annoyed, whatever the greeting mode and the idle window.
C3_SecondTurnAnnoyed ==
    [][C3_SecondRapidTurn => last'.preferred = "annoyed"]_vars

\* C3 amended: ... is dispatched as annoyed unless it is a session start under
\* greeting_mode turn_start or both (it is then dispatched as greeting).
C3_SecondTurnAnnoyedUnlessGreeting ==
    [][C3_SecondRapidTurn =>
          last'.preferred =
              IF last'.start /\ GreetsOnTurnStart THEN "greeting" ELSE "annoyed"]_vars

\* The second turn, exactly one window after the first, went out as annoyed
C3_Witness ==
    /\ last.op = "hook"
    /\ last.inferred = "acknowledge"
    /\ Cfg.annoyed_threshold = Num(2)
    /\ Cfg.annoyed_window_seconds = Num(1)
    /\ last.rapid_count = 2
    /\ State.turn_timestamps[last.key] = <<now - 1, now>>
    /\ last.preferred = "annoyed"

\* C4: under the default config no agent-turn-complete event is dispatched as
\* greeting, session start or not; the first two plain turns of a thread both
\* go to the admission policy as acknowledge.
C4_DefaultNeverGreets ==
    (Cfg = DEFAULT_CONFIG /\ last.op = "hook") =>
        /\ last.preferred # "greeting"
        /\ last.resolved # "greeting"
        /\ last.used # "greeting"
        /\ <<"peon", "greeting">> \notin DOMAIN State.last_played
        /\ (last.inferred = "acknowledge" /\ last.rapid_count <= 2) =>
               (last.preferred = "acknowledge" /\ last.resolved = "acknowledge")

\* The first turn of a thread, a session start, went out as acknowledge
C4_Witness ==
    /\ Cfg = DEFAULT_CONFIG
    /\ last.op = "hook"
    /\ last.start
    /\ last.inferred = "acknowledge"
    /\ last.preferred = "acknowledge"
    /\ last.played

\* C5: admission resolves the category asked for to the first enabled one of
\* [category, ...fallback chain]; when none is enabled nothing is played.
\* With greeting and acknowledge off and complete on, an event that goes to
\* admission as acknowledge (or greeting) resolves to complete.
C5_FirstEnabledInChain ==
    last.op = "hook" =>
        LET chain == <<last.preferred>> \o CATEGORY_FALLBACKS[last.preferred]
            on(i) == Cfg.categories[chain[i]]
        IN  /\ (\A i \in 1..Len(chain) : ~on(i)) =>
                  (last.resolved = "" /\ ~last.played /\ last.gate = "disabled")
            /\ \A i \in 1..Len(chain) :
                  (on(i) /\ \A j \in 1..(i - 1) : ~on(j)) => last.resolved = chain[i]
            /\ ( /\ ~Cfg.categories["greeting"]
                 /\ ~Cfg.categories["acknowledge"]
                 /\ Cfg.categories["complete"]
                 /\ last.preferred \in {"acknowledge", "greeting"} ) =>
                  last.resolved = "complete"

\* An acknowledge event was resolved to complete, the second of its chain
C5_Witness ==
    /\ last.op = "hook"
    /\ last.inferred = "acknowledge"
    /\ last.preferred = "acknowledge"
    /\ ~Cfg.categories["acknowledge"]
    /\ last.resolved = "complete"
    /\ last.used = "complete"
    /\ last.played

\* The cooldown the config sets for a category
Cooldown(category) == Cfg.cooldowns_seconds[category].v

\* C6: once a playback has been stamped for category C at time t, no event
\* resolving to C is admitted at a time now with now - t < cooldown[C], and the
\* stamp stays; with cooldowns_seconds.acknowledge = 999 the first of two
\* back-to-back acknowledge events (no stamp yet, no playback running) is
\* played and the second is not: exactly one playback attempt.
C6_CooldownSuppressesRepeat ==
    [][(last'.op = "hook" /\ last'.resolved # "") =>
          LET C == last'.resolved
              t == Get(State.last_category_ts, C, 0)
          IN  /\ (t > 0 /\ now' - t < Cooldown(C)) =>
                    /\ ~last'.played
                    /\ load_state(state_file').last_category_ts
                          = State.last_category_ts
              /\ ( /\ C = "acknowledge"
                   /\ Cooldown(C) = 999
                   /\ t = 0
                   /\ State.playback_pid \notin running ) =>
                    /\ last'.played
                    /\ load_state(state_file').last_category_ts[C] = now'
       ]_vars

\* The second acknowledge event was stopped by the cooldown of 999
C6_Witness ==
    /\ last.op = "hook"
    /\ last.gate = "cooldown"
    /\ last.resolved = "acknowledge"
    /\ Cooldown("acknowledge") = 999
    /\ "acknowledge" \in DOMAIN State.last_category_ts
    /\ ~last.played

\* C7: with prevent_overlap true and playback_pid naming a running process, a
\* processed event plays nothing and starts no process, and playback_pid and
\* last_category_ts stay as they were.
C7_OverlapBlocksPlayback ==
    [][( /\ last'.op = "hook"
         /\ Cfg.prevent_overlap
         /\ State.playback_pid # NoPid
         /\ State.playback_pid \in running ) =>
          /\ ~last'.played
          /\ running' = running
          /\ load_state(state_file').playback_pid = State.playback_pid
          /\ load_state(state_file').last_category_ts = State.last_category_ts
       ]_vars

\* An event was stopped at the overlap gate
C7_Witness ==
    /\ last.op = "hook"
    /\ last.gate = "overlap"
    /\ Cfg.prevent_overlap
    /\ State.playback_pid \in running

\* The caps of C8 on one session state
C8_Caps(state) ==
    /\ \A k \in DOMAIN state.turn_timestamps : Len(state.turn_timestamps[k]) <= 32
    /\ Len(state.seen_threads) <= 256

\* C8: after any sequence of processed events every thread's turn_timestamps
\* list holds at most 32 entries and seen_threads at most 256; a turn that
\* arrives when its thread's list is full (all 32 within the window) pushes out
\* the oldest timestamp, and a new thread arriving when seen_threads is full
\* pushes out the oldest thread.
C8_BoundedOldestFirst ==
    [][ /\ C8_Caps(load_state(state_file'))
        /\ last'.op = "hook" =>
              LET key == last'.key
                  turns == Get(State.turn_timestamps, key, <<>>)
                  seen == State.seen_threads
                  window == Cfg.annoyed_window_seconds.v
              IN  /\ ( /\ Len(turns) = 32
                       /\ \A i \in 1..32 : now' - turns[i] <= window ) =>
                        load_state(state_file').turn_timestamps[key] = Tail(turns) \o <<now'>>
                  /\ (Len(seen) = 256 /\ key \notin Range(seen)) =>
                        load_state(state_file').seen_threads = Tail(seen) \o <<key>>
      ]_vars

\* Thread 1's list is full and has lost its first turn; seen_threads is full and
\* has lost thread 1
C8_Witness ==
    /\ 1 \in DOMAIN State.turn_timestamps
    /\ Len(State.turn_timestamps[1]) = 32
    /\ State.turn_timestamps[1][1] > 2
    /\ Len(State.seen_threads) = 256
    /\ 1 \notin Range(State.seen_threads)

\* C9: the number of thread keys held in turn_timestamps never exceeds the
\* seen_threads cap of 256.
C9_ThreadKeysBounded == Cardinality(DOMAIN State.turn_timestamps) <= 256

\* C10: an agent-turn-complete event that arrives while the config has
\* enabled = false or the pause flag is set starts no playback and leaves the
\* state file and the running processes as they were.
C10_OffLeavesStateAlone ==
    [][(last'.op \in {"hook", "hook_off"} /\ (~Cfg.enabled \/ paused)) =>
          /\ last'.op = "hook_off"
          /\ ~last'.played
          /\ state_file' = state_file
          /\ running' = running
       ]_vars

\* An event arrived while paused, after earlier events had left their history
C10_Witness ==
    /\ last.op = "hook_off"
    /\ paused
    /\ Cfg.enabled
    /\ State.seen_threads # <<>>
    /\ State.last_event_ts > 0

\* C11: every payload that is invalid JSON, valid JSON that is no object, or an
\* object whose type is missing or not "agent-turn-complete" makes
\* handle_hook_payload return 0 without raising, without playback and without
\* a change of the session state.
C11_MalformedIgnored ==
    [][last'.op = "hook_rejected" =>
          /\ last'.result = "return 0"
          /\ ~last'.played
          /\ state_file' = state_file
          /\ running' = running
       ]_vars

\* C12: when a sound was selected (the category resolved, neither the cooldown
\* nor the overlap gate stopped it, the pack gave a file) and the platform has no
\* player, the attempt still counts as played: last_category_ts[used] = now and
\* playback_pid is overwritten with None, whatever pid was recorded before.
C12_NoHandleStillPlayed ==
    [][( /\ last'.op = "hook"
         /\ ~backend
         /\ last'.gate \notin {"disabled", "cooldown", "overlap", "nosound"} ) =>
          /\ last'.played
          /\ last'.pid = NoPid
          /\ running' = running
          /\ load_state(state_file').last_category_ts[last'.used] = now'
          /\ load_state(state_file').playback_pid = NoPid
          /\ _is_on_category_cooldown(
                 [Cfg EXCEPT !.cooldowns_seconds[last'.used] = Num(1)],
                 load_state(state_file'), last'.used, now')
       ]_vars

\* A pid was on record (overlap prevention off); the player went away and the
\* next attempt replaced the pid by None and took the cooldown stamp
C12_Witness ==
    /\ last.op = "hook"
    /\ last.played
    /\ last.pid = NoPid
    /\ ~backend
    /\ ~Cfg.prevent_overlap
    /\ running # {}
    /\ State.playback_pid = NoPid
    /\ State.last_category_ts[last.used] = now

\* C13: every processed event, whichever gate ends its admission (no enabled
\* category, cooldown, overlap, no sound) or if it is played, leaves a saved
\* state with last_event_ts = now, the thread key in seen_threads and now in the
\* thread's turn_timestamps.
C13_BlockedEventsStillCount ==
    [][last'.op = "hook" =>
          /\ last'.gate \in {"disabled", "cooldown", "overlap", "nosound", "played"}
          /\ state_file' # EmptyDict
          /\ load_state(state_file').last_event_ts = now'
          /\ last'.key \in Range(load_state(state_file').seen_threads)
          /\ last'.key \in DOMAIN load_state(state_file').turn_timestamps
          /\ now' \in Range(load_state(state_file').turn_timestamps[last'.key])
       ]_vars

\* An event stopped by the cooldown was counted as the thread's second turn
C13_Witness ==
    /\ last.op = "hook"
    /\ last.gate = "cooldown"
    /\ ~last.played
    /\ last.rapid_count = 2
    /\ State.last_event_ts = now
    /\ Len(State.turn_timestamps[last.key]) = 2

\* The message of the last event is a string in which some non-empty string
\* keyword of the category occurs, letter case ignored on both sides
C14_HasKeyword(category) ==
    /\ last.message.t = "str"
    /\ IsDict(Cfg.keywords)
    /\ category \in DOMAIN Cfg.keywords
    /\ Cfg.keywords[category].t = "list"
    /\ \E n \in 1..Len(Cfg.keywords[category].v) :
           LET term == Cfg.keywords[category].v[n]
           IN  /\ term.t = "str"
               /\ term.v # <<>>
               /\ Contains(LowerText(last.message.v), LowerText(term.v))

\* C14: the classification is the first category of [resource_limit,
\* permission, error] that has a non-empty keyword occurring in the message,
\* case-insensitively on both sides; it is acknowledge when no keyword matches
\* or the message is empty or not a string; whatever the keyword configuration,
\* it is one of the fixed categories.
C14_FirstKeywordCategory ==
    last.op = "hook" =>
        /\ last.inferred \in Categories
        /\ last.inferred =
              IF C14_HasKeyword("resource_limit") THEN "resource_limit"
              ELSE IF C14_HasKeyword("permission") THEN "permission"
              ELSE IF C14_HasKeyword("error") THEN "error"
              ELSE "acknowledge"
        /\ (last.message.t # "str" \/ last.message = EmptyMessage) =>
               last.inferred = "acknowledge"
        /\ (last.message = QuotaError /\ Cfg.keywords = DEFAULT_CONFIG.keywords) =>
               last.inferred = "resource_limit"
        /\ (last.message = DeniedApproval /\ Cfg.keywords = DEFAULT_CONFIG.keywords) =>
               last.inferred = "permission"

\* "Done" was classified resource_limit by the keyword "DONE"
C14_Witness ==
    /\ last.op = "hook"
    /\ last.message = Done
    /\ last.inferred = "resource_limit"
    /\ C14_HasKeyword("resource_limit")

\* C15: cmd_launch submits a greeting to the admission policy, and then saves
\* the state, if and only if the hook is enabled, not paused and the greeting
\* mode is launch or both; what it execs is codex with the arguments less one
\* leading "--".  With greeting_mode = off neither a launch nor a hook event
\* selects greeting.
C15_LaunchGreeting ==
    [][ /\ last'.op \in {"launch", "launch_off"} =>
             /\ last'.op = "launch" <=>
                    ( /\ Cfg.enabled
                      /\ ~paused
                      /\ _greeting_mode(Cfg) \in {"launch", "both"} )
             /\ last'.op = "launch" =>
                    (last'.preferred = "greeting" /\ state_file' # EmptyDict)
             /\ last'.op = "launch_off" =>
                    (~last'.played /\ state_file' = state_file /\ running' = running)
             /\ last'.result = "exec" =>
                    LET given == last'.codex_args
                    IN  last'.argv = <<"codex">> \o
                           (IF Len(given) > 0 /\ given[1] = "--"
                            THEN SubSeq(given, 2, Len(given)) ELSE given)
        /\ (_greeting_mode(Cfg) = "off" /\ last'.op \in {"hook", "launch"}) =>
             /\ last'.preferred # "greeting"
             /\ last'.resolved # "greeting"
             /\ last'.used # "greeting"
      ]_vars

\* A launch in the default mode played the greeting and went on to exec codex
\* with "--" "x", one of the two leading "--" taken off
C15_Witness ==
    /\ last.op = "launch"
    /\ _greeting_mode(Cfg) = "launch"
    /\ last.played
    /\ last.used = "greeting"
    /\ last.codex_args = <<"--", "--", "x">>
    /\ last.argv = <<"codex", "--", "x">>

C17_CountIsStoredLength ==
    last.op = "hook" =>
        /\ last.rapid_count = Len(last.saved.turn_timestamps[last.key])
        /\ last.rapid_count <= 32

\* The idle window in force: session_start_idle_seconds as the hook reads it
\* (a float >= 1, 120 when the config's value is no number)
C18_IdleWindow == _clamped_float(Cfg.session_start_idle_seconds, 120, 1)

\* C18: an event is a session start iff its thread key is absent from
\* seen_threads, or no event time is on record, or now - last_event_ts >=
\* session_start_idle_seconds, last_event_ts being the time of the last
\* processed event of any thread; every processed event sets last_event_ts =
\* now and adds its thread to seen_threads if new, and no other call touches
\* either.
C18_SessionStart ==
    [][ /\ last'.op = "hook" =>
             LET key == last'.key
                 known == key \in Range(State.seen_threads)
                 after == load_state(state_file')
             IN  /\ last'.start <=>
                        \/ ~known
                        \/ State.last_event_ts <= 0
                        \/ now' - State.last_event_ts >= C18_IdleWindow
                 /\ (known /\ State.last_event_ts > 0
                        /\ now' - State.last_event_ts < C18_IdleWindow) => ~last'.start
                 /\ after.last_event_ts = now'
                 /\ after.seen_threads =
                        IF known THEN State.seen_threads
                        ELSE LastN(State.seen_threads \o <<key>>, 256)
        /\ last'.op # "hook" =>
             /\ load_state(state_file').last_event_ts = State.last_event_ts
             /\ load_state(state_file').seen_threads = State.seen_threads
      ]_vars

\* A thread seen before is a session start again, one idle window after the
\* event of another thread
C18_Witness ==
    /\ last.op = "hook"
    /\ last.start
    /\ last.preferred = "greeting"
    /\ last.rapid_count = 2
    /\ Len(State.seen_threads) = 2
    /\ State.seen_threads[1] = last.key
    /\ State.turn_timestamps[State.seen_threads[2]] = <<now - 1>>
    /\ C18_IdleWindow = 1

\* C19: the cooldown gate never stops a category that has no last-played time
\* on record (absent or <= 0), nor a category whose configured cooldown is 0 or
\* negative, whatever came before.
C19_NoStampNoCooldown ==
    [][(last'.op = "hook" /\ last'.resolved # "") =>
          LET C == last'.resolved
              stamps == State.last_category_ts
          IN  /\ (C \notin DOMAIN stamps \/ Get(stamps, C, 0) <= 0) =>
                     last'.gate # "cooldown"
              /\ Cooldown(C) <= 0 => last'.gate # "cooldown"
       ]_vars

\* Under a cooldown of 999 the first acknowledge of a run, with nothing on
\* record for it, got past the cooldown gate and was played
C19_Witness ==
    /\ last.op = "hook"
    /\ last.resolved = "acknowledge"
    /\ Cooldown("acknowledge") = 999
    /\ last.rapid_count = 1
    /\ Len(State.seen_threads) = 1
    /\ last.played
    /\ last.used = "acknowledge"

\* C20: the cooldown of a category holds across the pack's fallback: after an
\* event that resolved to C was played at time t with a sound of another
\* category U, the next event resolving to C before t + cooldown[C] is not
\* played; and no sound of U is played while U is within cooldown[U] of its
\* last stamp.
C20_CooldownAcrossFallback ==
    [][last'.op = "hook" =>
          /\ ( /\ last.op = "hook"
               /\ last.played
               /\ last.used # last.resolved
               /\ last'.resolved = last.resolved
               /\ now' - now < Cooldown(last.resolved) ) => ~last'.played
          /\ \A U \in DOMAIN State.last_category_ts :
                 now' - State.last_category_ts[U] < Cooldown(U) =>
                    ~(last'.played /\ last'.used = U)
       ]_vars

\* C21: the category whose sound a hook event or a launch plays is one the
\* config's category switches leave on, also when the selection fell back
\* along the chain inside the pack.
C21_PlayedIsEnabled ==
    (last.op \in {"hook", "launch"} /\ last.played) =>
        category_enabled(Cfg, last.used)
\* C22: an admission that finds no playable sound is not played, starts no
\* player and leaves last_category_ts as it was; and whenever the stamp of a
\* category changes, the call played a sound, of that category, and the stamp
\* is the call's clock reading.
C22_StampOnlyWhenPlayed ==
    [][LET before == load_state(state_file).last_category_ts
           after == load_state(state_file').last_category_ts
       IN  /\ (last'.op = "hook" /\ last'.gate = "nosound") =>
                 /\ ~last'.played
                 /\ last'.pid = NoPid
                 /\ running' = running
                 /\ after = before
           /\ \A c \in Categories :
                 Get(after, c, 0) # Get(before, c, 0) =>
                    /\ last'.op \in {"hook", "launch"}
                    /\ last'.played
                    /\ last'.used = c
                    /\ after[c] = now'
      ]_vars

\* An event found no sound for its category while the stamp of a category
\* played before it stayed on record
C22_Witness ==
    /\ last.op = "hook"
    /\ last.gate = "nosound"
    /\ last.resolved = "acknowledge"
    /\ "permission" \in DOMAIN State.last_category_ts
    /\ "acknowledge" \notin DOMAIN State.last_category_ts
    /\ last.rapid_count = 2
\* The pack pick_sound reads, and the pack:category keys one selection went
\* through: the categories of the chain that list files, up to the one used
C23_Pack == IF installed[Cfg.active_pack].loads THEN Cfg.active_pack ELSE "peon"

C23_Files(cat) == Get(installed[C23_Pack].categories, cat, <<>>)

C23_Visited(pick, category) ==
    LET chain == <<category>> \o CATEGORY_FALLBACKS[category]
        upto == IF pick.found
                THEN CHOOSE i \in 1..Len(chain) :
                         /\ chain[i] = pick.used
                         /\ \A j \in 1..(i - 1) : chain[j] # pick.used
                ELSE Len(chain)
    IN  {chain[i] : i \in {j \in 1..upto : C23_Files(chain[j]) # <<>>}}

\* Whatever the state on record and the category asked for, a selection
\* remembers for each pack:category it went through one of its files; not the
\* one remembered before when the category has two distinct files; the only
\* one when it has one; and the file it returns is the one it remembers
C23_Selection ==
    installed[C23_Pack].loads =>
        \A category \in Categories :
            \A pick \in pick_sound(Cfg, State, category, installed) :
                /\ \A cat \in C23_Visited(pick, category) :
                       LET key == <<C23_Pack, cat>>
                           files == C23_Files(cat)
                           picked == pick.state.last_played[key]
                       IN  /\ picked \in Range(files)
                           /\ Cardinality(Range(files)) >= 2 =>
                                  picked # Get(State.last_played, key, "")
                           /\ Len(files) = 1 => picked = files[1]
                /\ pick.found =>
                       pick.file = pick.state.last_played[<<C23_Pack, pick.used>>]

\* A played event leaves on record, for the category used, a file other than
\* the one on record before it when the category has two distinct files
C23_Step ==
    (last'.op = "hook" /\ last'.played) =>
        LET key == <<C23_Pack, last'.used>>
            after == load_state(state_file').last_played
            before == load_state(state_file).last_played
        IN  /\ key \in DOMAIN after
            /\ after[key] \in Range(C23_Files(last'.used))
            /\ Cardinality(Range(C23_Files(last'.used))) >= 2 =>
                   after[key] # Get(before, key, "")

\* C23: for a pack and category with two or more distinct sound files, two
\* consecutive selections never pick the same file; with a single file that
\* file is always the one picked; and last_played[pack:category] is the file
\* the latest selection picked.
C23_AntiRepeat == []C23_Selection /\ [][C23_Step]_vars

\* Two events in a row were played from a category with two files; the second
\* took the file the first had not
C23_Witness ==
    /\ last.op = "hook"
    /\ last.played
    /\ last.used = "acknowledge"
    /\ last.rapid_count = 2
    /\ running = {1, 2}
    /\ C23_Files("acknowledge") = <<"a.wav", "b.wav">>
    /\ State.last_played[<<C23_Pack, "acknowledge">>] = "a.wav"
\* The player whose pid is on record has exited: no process has the pid, or
\* the pid, free since that exit, has just gone to another process
C24_PlayerGone ==
    /\ State.playback_pid # NoPid
    /\ \/ State.playback_pid \notin running
       \/ last.op = "pid_reused" /\ last.pid = State.playback_pid

\* C24: with prevent_overlap true, a recorded playback_pid whose process has
\* exited never blocks: the event that follows gets past the overlap gate,
\* and, the pack having a sound for every enabled category, it is played
\* unless the cooldown stops it.
C24_StalePidNeverBlocks ==
    [][(Cfg.prevent_overlap /\ C24_PlayerGone /\ last'.op = "hook") =>
          /\ last'.gate # "overlap"
          /\ last'.gate # "cooldown" => last'.played
      ]_vars
\* Some invocation loaded the state while another was under way
C25_Interleaved == \E p \in Invocations : inflight[p].raced

\* C25: with prevent_overlap true and a player that returns a live process
\* handle, no two playback processes started by hook invocations are alive at
\* the same time, also when two invocations interleave their load, decide and
\* save steps.
C25_OnePlayerAtATime ==
    (Cfg.prevent_overlap /\ backend) => Cardinality(running) <= 1

\* C25 as amended: ... as long as no invocation has loaded the state while
\* another was between its load and the end of its save.
C25_OnePlayerUnlessInterleaved ==
    (Cfg.prevent_overlap /\ backend /\ ~C25_Interleaved) =>
        Cardinality(running) <= 1

\* The second of two invocations that ran one after the other was stopped at
\* the overlap gate while the first one's player was alive
C25_Witness ==
    /\ ~C25_Interleaved
    /\ Cfg.prevent_overlap
    /\ last.op = "hook"
    /\ last.gate = "overlap"
    /\ last.rapid_count = 2
    /\ running = {State.playback_pid}
    /\ \A p \in Invocations : inflight[p].pc = "idle"
\* C26: persistence is atomic for the other invocations: an invocation that
\* loads the state while another one is saving over a state on record gets a
\* complete state, the old one or a new one, never the default state an empty
\* or partial file stands for (which it would later write over the history
\* on record).
C26_LoadSeesCompleteState ==
    [][\A p \in Invocations :
          (inflight[p].pc = "idle" /\ inflight'[p].pc = "loaded") =>
              \A q \in Invocations \ {p} :
                  (inflight[q].pc = "saving" /\ inflight[q].old # EmptyDict) =>
                      /\ state_file # EmptyDict
                      /\ inflight'[p].state # DEFAULT_STATE
      ]_vars
\* The annoyed window in force
C27_Window == Max(1, _clamped_float(Cfg.annoyed_window_seconds, 10, 1))

\* C27: burst detection is per thread: an event of one thread leaves the
\* turn lists of all other threads as they were, and its rapid-turn count is
\* one more than the turns of its own thread still inside the window, whatever
\* the other threads hold.
C27_PerThreadBursts ==
    [][last'.op = "hook" =>
          LET before == load_state(state_file).turn_timestamps
              after == load_state(state_file').turn_timestamps
              own == Get(before, last'.key, <<>>)
          IN  /\ DOMAIN after = DOMAIN before \cup {last'.key}
              /\ \A k \in DOMAIN before : k # last'.key => after[k] = before[k]
              /\ last'.rapid_count =
                     1 + Len(SelectSeq(own, LAMBDA t : now' - t <= C27_Window))
      ]_vars

\* The first turn of a thread counted 1 while another thread had two turns
\* on record
C27_Witness ==
    /\ last.op = "hook"
    /\ last.rapid_count = 1
    /\ \E k \in DOMAIN State.turn_timestamps :
          /\ k # last.key
          /\ Len(State.turn_timestamps[k]) = 2
          /\ \A i \in 1..2 : now - State.turn_timestamps[k][i] <= C27_Window
\* C28: whatever annoyed_threshold is configured (0, 1, negative, no number),
\* the threshold in force is at least 2, and an event of a thread with no
\* earlier turn inside the annoyed window is never dispatched as annoyed.
C28_FirstTurnNeverAnnoyed ==
    [][last'.op = "hook" =>
          LET own == Get(load_state(state_file).turn_timestamps, last'.key, <<>>)
              earlier == SelectSeq(own, LAMBDA t : now' - t <= C27_Window)
          IN  /\ _clamped_int(Cfg.annoyed_threshold, 3, 2) >= 2
              /\ earlier = <<>> =>
                     /\ last'.rapid_count = 1
                     /\ last'.preferred # "annoyed"
                     /\ last'.resolved # "annoyed"
                     /\ last'.used # "annoyed"
      ]_vars

\* Under a configured threshold of 0 the first turn of a thread went out as
\* acknowledge, with annoyed switched on
C28_Witness ==
    /\ last.op = "hook"
    /\ Cfg.annoyed_threshold = Num(0)
    /\ category_enabled(Cfg, "annoyed")
    /\ last.rapid_count = 1
    /\ Len(State.seen_threads) = 2
    /\ last.preferred = "acknowledge"
    /\ last.played
\* The config file as the user wrote it: of the cooldowns it has the default
\* entry only, with a positive value
C29_DefaultOnly ==
    /\ "cooldowns_seconds" \in DOMAIN config_file
    /\ DOMAIN config_file.cooldowns_seconds = {"default"}
    /\ config_file.cooldowns_seconds["default"].t = "num"
    /\ config_file.cooldowns_seconds["default"].v > 0

\* C29: when the user's config file sets cooldowns_seconds.default = d > 0 and
\* no cooldown for any category, the cooldown the admission policy applies,
\* under the config load_config returns, is d for each of the seven
\* categories.
C29_DefaultCooldownApplies ==
    C29_DefaultOnly =>
        \A category \in Categories :
            _cooldown_seconds_for(load_config(config_file), category) =
                config_file.cooldowns_seconds["default"].v
====
